---- MODULE Spec2Model ----
(***************************************************************************)
(* lg-utils: the StructuredAgent retry orchestrator (types/__init__.py)    *)
(* and the YAML segment extractor / candidate selector                     *)
(* (parsers/yaml/utils.py).                                                *)
(*                                                                         *)
(* Spec      one StructuredAgent object and its external calls             *)
(* SpecYaml  one YAMLExtractor object and its process() calls              *)
(***************************************************************************)
EXTENDS Integers, Sequences, FiniteSets, TLC

VARIABLES self, pc, st, outcome,
          ex, text, yst

vars == <<self, pc, st, outcome, ex, text, yst>>

(***************************************************************************)
(* Bounds                                                                  *)
(***************************************************************************)
\* largest max_attempts a retry policy is configured with
MaxAttempts == 3

\* Op(v), with v evaluated once
Bind(v, Op(_)) == CHOOSE y \in {Op(x) : x \in {v}} : TRUE

(***************************************************************************)
(* Exact rational arithmetic for the waits: <<numerator, denominator>>,    *)
(* in seconds, denominator > 0.                                            *)
(***************************************************************************)
RatLE(a, b) == a[1] * b[2] <= b[1] * a[2]

RatEq(a, b) == a[1] * b[2] = b[1] * a[2]

RatMin(a, b) == IF RatLE(a, b) THEN a ELSE b

RatMax(a, b) == IF RatLE(a, b) THEN b ELSE a

RatMul(a, b) == <<a[1] * b[1], a[2] * b[2]>>

RatPow(a, k) == <<a[1] ^ k, a[2] ^ k>>

(***************************************************************************)
(* Exceptions.  An exception object is [cls, id]; id is the serial number  *)
(* of the raise within the external call, so two raises of the same class  *)
(* are different objects.                                                  *)
(***************************************************************************)
NoExc == [cls |-> "none", id |-> 0]

\* Python's class hierarchy for the classes that occur: the class and all
\* its bases (what isinstance() accepts).
Mro(cls) ==
    CASE cls = "ValueError"        -> {"ValueError", "Exception", "BaseException"}
      [] cls = "JSONDecodeError"   -> {"JSONDecodeError", "ValueError", "Exception", "BaseException"}
      [] cls = "KeyError"          -> {"KeyError", "LookupError", "Exception", "BaseException"}
      [] cls = "TypeError"         -> {"TypeError", "Exception", "BaseException"}
      [] cls = "RuntimeError"      -> {"RuntimeError", "Exception", "BaseException"}
      [] cls = "OSError"           -> {"OSError", "Exception", "BaseException"}
      [] cls = "AttributeError"    -> {"AttributeError", "Exception", "BaseException"}
      [] cls = "KeyboardInterrupt" -> {"KeyboardInterrupt", "BaseException"}
      [] OTHER                     -> {}

\* classes the model invocation raises in this model (self.llm.invoke)
LlmRaises == {"RuntimeError", "OSError", "KeyboardInterrupt"}

\* classes a user post-processor raises in this model
PpRaises == {"ValueError", "KeyError", "TypeError", "RuntimeError",
             "JSONDecodeError", "OSError"}

(***************************************************************************)
(* Retry policies                                                          *)
(***************************************************************************)
\* default_retry, with max_attempts overridden by the caller's dict
DefaultRetry(m) ==
    [max_attempts |-> m, wait_base |-> <<1, 5>>, wait_min |-> <<0, 1>>,
     wait_max |-> <<30, 1>>]

\* a caller's policy overriding every default
CustomRetry(m) ==
    [max_attempts |-> m, wait_base |-> <<2, 1>>, wait_min |-> <<1, 1>>,
     wait_max |-> <<3, 1>>]

RetryConfigs ==
    {DefaultRetry(m) : m \in 1..MaxAttempts} \cup {CustomRetry(m) : m \in 1..MaxAttempts}

\* tenacity.wait_exponential(multiplier=1, exp_base, min, max) after attempt n:
\*   max(max(0, min), min(multiplier * exp_base ** (n - 1), max))
\* _build_retryer passes configs['wait_base'] as exp_base.
WaitExponential(configs, n) ==
    LET result == RatMul(<<1, 1>>, RatPow(configs.wait_base, n - 1))
    IN  RatMax(RatMax(<<0, 1>>, configs.wait_min), RatMin(result, configs.wait_max))

\* retry_if_exception_type(exc_types): isinstance(e, exc_types)
RetryIfExceptionType(exc_types, e) == Mro(e.cls) \cap exc_types # {}

\* variant of Reraise: reraise=False, tenacity raises its RetryError
ReraiseWrapped(e) == [cls |-> "RetryError", id |-> e.id]

\* reraise=True: on stop the last attempt's own exception is raised again
Reraise(e) == e

\* What a Retrying object built by _build_retryer does after attempt n ended
\* with exception e: not retryable -> the exception itself propagates; stop
\* reached -> reraise; otherwise sleep wait(n) and run attempt n + 1.
Retryer(configs, exc_types, n, e) ==
    IF ~RetryIfExceptionType(exc_types, e)
    THEN [action |-> "raise", exc |-> e, wait |-> <<0, 1>>]
    ELSE IF n >= configs.max_attempts
    THEN [action |-> "raise", exc |-> Reraise(e), wait |-> <<0, 1>>]
    ELSE [action |-> "retry", exc |-> e, wait |-> WaitExponential(configs, n)]

\* line 55: the outer retryer retries on Exception
LlmExcTypes == {"Exception"}

\* variant of PpExcTypes: the inner retryer built like the outer one
PpExcTypesAny == {"Exception"}

\* lines 56-60: the inner retryer retries on these four classes
PpExcTypes == {"ValueError", "KeyError", "TypeError", "RuntimeError"}

\* self._llm_retryer
LlmRetryer(n, e) == Retryer(self.retry_configs, LlmExcTypes, n, e)

\* self._pp_retryer
PpRetryer(n, e) == Retryer(self.pp_retry_configs, PpExcTypes, n, e)

(***************************************************************************)
(* Results of the extractor's operations: a returned value or a raised     *)
(* error.                                                                  *)
(***************************************************************************)
NoError == [type |-> "none", msg |-> "none", segment |-> 0, keys |-> <<>>]

Return(v) == [kind |-> "return", value |-> v, error |-> NoError]

Raise(e) == [kind |-> "raise", value |-> <<>>, error |-> e]

NoResult == [kind |-> "none", value |-> <<>>, error |-> NoError]

\* before construction
NoExtractor == [state |-> "new", mandatory_keys |-> <<>>, strategy |-> "none"]

\* the constructor refused the strategy it was given: no object exists
Rejected(strategy) ==
    [state |-> "rejected", mandatory_keys |-> <<>>, strategy |-> strategy]

\* no call made yet
NoCall ==
    [op |-> "none", exclude |-> FALSE, input |-> <<>>, regions |-> <<>>,
     segments |-> <<>>, candidates |-> <<>>, filtered |-> NoResult, result |-> NoResult]

(***************************************************************************)
(* StructuredAgent                                                         *)
(***************************************************************************)
\* no text: the value of raw_content before the first model call returned
NoText == [call |-> 0, attempt |-> 0]

NoOutcome == [kind |-> "none", exc |-> NoExc, value |-> NoText]

NoSleep == [layer |-> "none", n |-> 0, dur |-> <<0, 1>>]

\* __init__: the fields the call path reads.  self.llm is assigned inside
\* the if llm is None: branch only, so an agent constructed with a model
\* object has no llm attribute.
StructuredAgent(llm_arg, post_processor, retry_configs, post_process_retry_configs) ==
    [llm_arg          |-> llm_arg,
     llm              |-> IF llm_arg = "none" THEN "init_chat_model" ELSE "unset",
     post_processor   |-> post_processor,
     retry_configs    |-> retry_configs,
     pp_retry_configs |-> post_process_retry_configs]

\* per-call state at the entry of the inner retry loop; the fields after
\* raw_content are history the properties read, not program state
StartCall ==
    [pp_attempt      |-> 1,
     llm_attempt     |-> 1,
     raw_content     |-> NoText,
     llm_calls       |-> 0,
     pp_calls        |-> 0,
     raised          |-> 0,
     env_raised      |-> FALSE,
     pp_input        |-> NoText,
     pp_input_attempt|-> 0,
     last_llm_exc    |-> NoExc,
     all_llm_raised  |-> TRUE,
     llm_attempt_exc |-> NoExc,
     llm_exit        |-> [kind |-> "none", exc |-> NoExc, last |-> NoExc, n |-> 0],
     pp_attempt_exc  |-> NoExc,
     pp_exit_n       |-> 0,
     slept           |-> NoSleep,
     log             |-> [llm_warn |-> 0, pp_warn |-> 0, error |-> 0]]

\* _log_retry_attempt / _log_post_process_retry: the before-hook of attempt n
\* warns when n > 1
LogRetry(log, field, n) ==
    IF n > 1 THEN [log EXCEPT ![field] = @ + 1] ELSE log

\* variant of InnerFailed: a new inner attempt goes on with the outer
\* layer's attempt counter where the last one left it
InnerFailedKeepsCounter(s, e) ==
    LET d  == PpRetryer(s.pp_attempt, e)
        s1 == [s EXCEPT !.pp_attempt_exc = e, !.pp_exit_n = s.pp_attempt]
    IN  IF d.action = "retry"
        THEN [pc      |-> "invoke",
              st      |-> [s1 EXCEPT !.pp_attempt  = s.pp_attempt + 1,
                                     !.slept       = [layer |-> "pp", n |-> s.pp_attempt,
                                                      dur |-> d.wait],
                                     !.log         = LogRetry(s.log, "pp_warn",
                                                              s.pp_attempt + 1)],
              outcome |-> NoOutcome]
        ELSE [pc      |-> "done",
              st      |-> IF "Exception" \in Mro(d.exc.cls)
                          THEN [s1 EXCEPT !.log.error = @ + 1]
                          ELSE s1,
              outcome |-> [kind |-> "raise", exc |-> d.exc, value |-> NoText]]

\* __call__, lines 102-109: the inner attempt of state s ended with exception
\* e.  The inner retryer retries (a new inner attempt, which enters
\* _invoke_llm and so a new iteration of the outer retryer) or the exception
\* leaves the call; except Exception logs and re-raises with a bare raise.
InnerFailed(s, e) ==
    LET d  == PpRetryer(s.pp_attempt, e)
        s1 == [s EXCEPT !.pp_attempt_exc = e, !.pp_exit_n = s.pp_attempt]
    IN  IF d.action = "retry"
        THEN [pc      |-> "invoke",
              st      |-> [s1 EXCEPT !.pp_attempt  = s.pp_attempt + 1,
                                     !.llm_attempt = 1,
                                     !.slept       = [layer |-> "pp", n |-> s.pp_attempt,
                                                      dur |-> d.wait],
                                     !.log         = LogRetry(s.log, "pp_warn",
                                                              s.pp_attempt + 1)],
              outcome |-> NoOutcome]
        ELSE [pc      |-> "done",
              st      |-> IF "Exception" \in Mro(d.exc.cls)
                          THEN [s1 EXCEPT !.log.error = @ + 1]
                          ELSE s1,
              outcome |-> [kind |-> "raise", exc |-> d.exc, value |-> NoText]]

\* _invoke_llm, lines 81-84: the outer attempt of state s ended with
\* exception e.
OuterFailed(s, e) ==
    LET d  == LlmRetryer(s.llm_attempt, e)
        s1 == [s EXCEPT !.llm_attempt_exc = e]
    IN  IF d.action = "retry"
        THEN [pc      |-> "invoke",
              st      |-> [s1 EXCEPT !.llm_attempt = s.llm_attempt + 1,
                                     !.slept       = [layer |-> "llm", n |-> s.llm_attempt,
                                                      dur |-> d.wait],
                                     !.log         = LogRetry(s.log, "llm_warn",
                                                              s.llm_attempt + 1)],
              outcome |-> NoOutcome]
        ELSE InnerFailed([s1 EXCEPT !.llm_exit = [kind |-> "raise", exc |-> d.exc,
                                                  last |-> e, n |-> s.llm_attempt]],
                         d.exc)

\* the text a model invocation returns: tagged with the serial number of the
\* invocation and the inner attempt it was made in
ModelText(s) == [call |-> s.llm_calls + 1, attempt |-> s.pp_attempt]

\* variant of RawContent: a text obtained once is kept for later attempts
RawContentStale(s, t) == IF s.raw_content = NoText THEN t ELSE s.raw_content

\* line 105: raw_content is what this attempt's _invoke_llm returned
RawContent(s, t) == t

\* the new exception object of class cls raised in state s
NewExc(s, cls) == [cls |-> cls, id |-> s.raised + 1]

Init ==
    /\ self \in {StructuredAgent(l, p, rc, ppc) :
                    l \in {"none", "custom"}, p \in {"default", "user"},
                    rc \in RetryConfigs, ppc \in RetryConfigs}
    /\ pc = "idle"
    /\ st = StartCall
    /\ outcome = NoOutcome
    /\ ex = NoExtractor
    /\ text = <<>>
    /\ yst = NoCall

\* __call__, lines 86-103: messages are rendered and the inner retry loop is
\* entered (template rendering is an external collaborator, not modelled)
Call ==
    /\ pc \in {"idle", "done"}
    /\ pc' = "invoke"
    /\ st' = StartCall
    /\ outcome' = NoOutcome
    /\ UNCHANGED <<self, ex, text, yst>>

\* One outer attempt, line 83: reading self.llm raises AttributeError when
\* the attribute was never set; otherwise the model is invoked and returns a
\* text.
InvokeReturns ==
    /\ pc = "invoke"
    /\ self.llm # "unset"
    /\ LET t == ModelText(st)
       IN  /\ st' = [st EXCEPT !.llm_calls       = @ + 1,
                               !.raw_content     = RawContent(st, t),
                               !.last_llm_exc    = NoExc,
                               !.all_llm_raised  = FALSE,
                               !.llm_attempt_exc = NoExc,
                               !.llm_exit        = [kind |-> "return", exc |-> NoExc,
                                                    last |-> NoExc,
                                                    n |-> st.llm_attempt]]
           /\ pc' = "post"
    /\ UNCHANGED <<self, outcome, ex, text, yst>>

\* One outer attempt, line 83, in which the model invocation raises.
InvokeRaises ==
    /\ pc = "invoke"
    /\ self.llm # "unset"
    /\ \E cls \in LlmRaises :
         LET e == NewExc(st, cls)
             s == [st EXCEPT !.llm_calls      = @ + 1,
                             !.raised         = @ + 1,
                             !.env_raised     = TRUE,
                             !.last_llm_exc   = e,
                             !.all_llm_raised = @ /\ "Exception" \in Mro(cls)]
             r == OuterFailed(s, e)
         IN  /\ pc' = r.pc
             /\ st' = r.st
             /\ outcome' = r.outcome
    /\ UNCHANGED <<self, ex, text, yst>>

\* One outer attempt, line 83, on an agent without the llm attribute: the
\* attribute lookup raises before any model is invoked.
InvokeNoAttribute ==
    /\ pc = "invoke"
    /\ self.llm = "unset"
    /\ LET e == NewExc(st, "AttributeError")
           r == OuterFailed([st EXCEPT !.raised = @ + 1], e)
       IN  /\ pc' = r.pc
           /\ st' = r.st
           /\ outcome' = r.outcome
    /\ UNCHANGED <<self, ex, text, yst>>

\* line 106: the post-processor returns; the default one wraps its input.
PostProcessReturns ==
    /\ pc = "post"
    /\ st' = [st EXCEPT !.pp_calls         = @ + 1,
                        !.pp_input         = st.raw_content,
                        !.pp_input_attempt = st.pp_attempt,
                        !.pp_attempt_exc   = NoExc,
                        !.pp_exit_n        = st.pp_attempt]
    /\ pc' = "done"
    /\ outcome' = [kind |-> "return", exc |-> NoExc, value |-> st.raw_content]
    /\ UNCHANGED <<self, ex, text, yst>>

\* line 106: a user post-processor raises.
PostProcessRaises ==
    /\ pc = "post"
    /\ self.post_processor = "user"
    /\ \E cls \in PpRaises :
         LET e == NewExc(st, cls)
             s == [st EXCEPT !.pp_calls         = @ + 1,
                             !.raised           = @ + 1,
                             !.env_raised       = TRUE,
                             !.pp_input         = st.raw_content,
                             !.pp_input_attempt = st.pp_attempt]
             r == InnerFailed(s, e)
         IN  /\ pc' = r.pc
             /\ st' = r.st
             /\ outcome' = r.outcome
    /\ UNCHANGED <<self, ex, text, yst>>

Next ==
    \/ Call
    \/ InvokeReturns
    \/ InvokeRaises
    \/ InvokeNoAttribute
    \/ PostProcessReturns
    \/ PostProcessRaises

Spec == Init /\ [][Next]_vars

(***************************************************************************)
(* YAML segment extractor.  A text is a sequence of lines (the string is   *)
(* the lines joined by "\n"), each line one of Lines.                      *)
(***************************************************************************)
\* most lines of an input text
MaxLines == 4

\* the line of three backticks that opens or closes a fenced block
Fence == "<fence>"

Blank == ""

\* a flow mapping whose key is a list: it scans and parses, and constructing
\* it raises ConstructorError (found unhashable key)
UnhashableKey == "{[a]: b}"

\* a fence line, a blank line, two key/value lines, a line of prose and a
\* line that is well-formed YAML no dict can be built from
Lines == {Fence, Blank, "title: A", "steps: x", "hello", UnhashableKey}

IsKV(l) == l \in {"title: A", "steps: x"}

\* ":" in line
HasColon(l) == IsKV(l) \/ l = UnhashableKey

LineKey(l) == IF l = "title: A" THEN "title" ELSE "steps"

LineValue(l) == IF l = "title: A" THEN "A" ELSE "x"

Texts == UNION {[1..n -> Lines] : n \in 0..MaxLines}

RECURSIVE StripLeft(_)
StripLeft(ls) ==
    IF ls # <<>> /\ Head(ls) = Blank THEN StripLeft(Tail(ls)) ELSE ls

RECURSIVE StripRight(_)
StripRight(ls) ==
    IF ls # <<>> /\ ls[Len(ls)] = Blank
    THEN StripRight(SubSeq(ls, 1, Len(ls) - 1))
    ELSE ls

\* str.strip() of a text: leading and trailing blank lines go
Strip(ls) == StripRight(StripLeft(ls))

\* yaml.safe_load of a block of lines, as parse_multiline_yaml sees it:
\* only key/value lines (blank lines between them allowed) load as a dict, a
\* later duplicate key winning; a block starting with prose and holding no
\* line with a colon loads as a scalar; the flow mapping on its own raises
\* ConstructorError once the document is composed ("other"); anything else
\* is a scanner or parser error ("error").
SafeLoadLines(nb) ==
    LET ix == 1..Len(nb)
    IN  IF nb = <<>>
        THEN [kind |-> "none", data |-> << >>]
        ELSE IF \A i \in ix : IsKV(nb[i])
        THEN [kind |-> "dict",
              data |-> [k \in {LineKey(nb[i]) : i \in ix} |->
                          LineValue(nb[CHOOSE i \in ix :
                                         /\ LineKey(nb[i]) = k
                                         /\ \A j \in ix : LineKey(nb[j]) = k => j <= i])]]
        ELSE IF nb[1] = "hello" /\ \A i \in ix : ~HasColon(nb[i])
        THEN [kind |-> "scalar", data |-> << >>]
        ELSE IF nb = <<UnhashableKey>>
        THEN [kind |-> "other", data |-> << >>]
        ELSE [kind |-> "error", data |-> << >>]

SafeLoad(ls) == Bind(SelectSeq(ls, LAMBDA l : l # Blank), SafeLoadLines)

\* variant of parse_multiline_yaml without the last except clause: an
\* exception that is neither ScannerError nor ParserError leaves the function
parse_multiline_yaml_uncaught(ls) ==
    Bind(SafeLoad(ls),
         LAMBDA r : IF r.kind = "dict"
                    THEN [ok |-> TRUE, data |-> r.data, exc |-> "none"]
                    ELSE IF r.kind = "other"
                    THEN [ok |-> FALSE, data |-> << >>, exc |-> "ConstructorError"]
                    ELSE [ok |-> FALSE, data |-> << >>, exc |-> "none"])

\* parse_multiline_yaml: the dict, or None for a non-dict (lines 21-24), for
\* a scanner or parser error (lines 25-31) and for any other exception
\* (lines 32-34).  exc is the exception that leaves the function: none.
parse_multiline_yaml(ls) ==
    Bind(SafeLoad(ls),
         LAMBDA r : IF r.kind = "dict"
                    THEN [ok |-> TRUE, data |-> r.data, exc |-> "none"]
                    ELSE [ok |-> FALSE, data |-> << >>, exc |-> "none"])

\* The first match of pattern_in_backticks at or after line from:
\* the backticks end line i and are followed by a newline, the body runs
\* lazily to the first newline-backticks after it, that is to the first
\* fence line j >= i + 2
\* (the newline before line i + 1 belongs to the opening).  <<0, 0>>: none.
FenceMatch(ls, from) ==
    IF \A i \in from..Len(ls) :
          ls[i] = Fence => \A j \in (i + 2)..Len(ls) : ls[j] # Fence
    THEN <<0, 0>>
    ELSE Bind(CHOOSE i \in from..Len(ls) :
                /\ ls[i] = Fence
                /\ \E j \in (i + 2)..Len(ls) : ls[j] = Fence
                /\ \A y \in from..(i - 1) :
                      ls[y] = Fence => \A j \in (y + 2)..Len(ls) : ls[j] # Fence,
              LAMBDA i : <<i, CHOOSE j \in (i + 2)..Len(ls) :
                                /\ ls[j] = Fence
                                /\ \A y \in (i + 2)..(j - 1) : ls[y] # Fence>>)

\* re.finditer: the non-overlapping matches, leftmost first
RECURSIVE FenceMatches(_, _)
FenceMatches(ls, from) ==
    Bind(FenceMatch(ls, from),
         LAMBDA m : IF m = <<0, 0>>
                    THEN <<>>
                    ELSE <<m>> \o FenceMatches(ls, m[2] + 1))

\* step 1: the stripped body of each match, when not empty.  A segment is
\* [lines, kind, at]: at is the line of the text where its source region
\* begins (history, not program state).
FencedSegments(ls) ==
    Bind(FenceMatches(ls, 1),
         LAMBDA ms :
           SelectSeq([k \in 1..Len(ms) |->
                        [lines |-> Strip(SubSeq(ls, ms[k][1] + 1, ms[k][2] - 1)),
                         kind  |-> "fenced",
                         at    |-> ms[k][1]]],
                     LAMBDA g : g.lines # <<>>))

\* step 2: text_stripped.  Cutting match.start()..match.end() out of the
\* string leaves the newline before the opening fence and the one after the
\* closing fence, so each matched region becomes one empty line.  Each line
\* keeps the number it has in the text.
RECURSIVE TextStripped(_, _, _)
TextStripped(ls, ms, k) ==
    IF k > Len(ls)
    THEN <<>>
    ELSE IF \A x \in 1..Len(ms) : ~(ms[x][1] <= k /\ k <= ms[x][2])
    THEN <<[l |-> ls[k], at |-> k]>> \o TextStripped(ls, ms, k + 1)
    ELSE <<[l |-> Blank, at |-> k]>>
         \o TextStripped(ls, ms,
                          ms[CHOOSE x \in 1..Len(ms) :
                               ms[x][1] <= k /\ k <= ms[x][2]][2] + 1)

\* re.split on a newline, white space, newline, followed by strip(): the
\* maximal runs of non-blank lines
RECURSIVE SplitBlocks(_, _)
SplitBlocks(tl, cur) ==
    IF tl = <<>>
    THEN IF cur = <<>> THEN <<>> ELSE <<cur>>
    ELSE IF Head(tl).l = Blank
    THEN (IF cur = <<>> THEN <<>> ELSE <<cur>>) \o SplitBlocks(Tail(tl), <<>>)
    ELSE SplitBlocks(Tail(tl), Append(cur, Head(tl)))

\* step 3: the blocks that contain a ":"
StandaloneSegments(ls) ==
    Bind(Bind(Bind(FenceMatches(ls, 1), LAMBDA ms : TextStripped(ls, ms, 1)),
              LAMBDA tl : SplitBlocks(tl, <<>>)),
         LAMBDA blocks :
           SelectSeq([k \in 1..Len(blocks) |->
                        [lines |-> [i \in 1..Len(blocks[k]) |-> blocks[k][i].l],
                         kind  |-> "standalone",
                         at    |-> blocks[k][1].at]],
                     LAMBDA g : \E i \in 1..Len(g.lines) : HasColon(g.lines[i])))

\* potential_segments: the fenced ones, then the standalone ones
PotentialSegments(ls) == FencedSegments(ls) \o StandaloneSegments(ls)

\* lines 67-78: each potential segment with what parse_multiline_yaml made
\* of it
ParsedSegments(ls) ==
    Bind(PotentialSegments(ls),
         LAMBDA ps :
           [k \in 1..Len(ps) |->
              [p    |-> parse_multiline_yaml(ps[k].lines),
               kind |-> ps[k].kind,
               at   |-> ps[k].at]])

\* lines 77-80: the parsed segments that are not None
ValidSegments(parsed) ==
    Bind(SelectSeq(parsed, LAMBDA c : c.p.ok),
         LAMBDA valid :
           [k \in 1..Len(valid) |->
              [data |-> valid[k].p.data, kind |-> valid[k].kind, at |-> valid[k].at]])

\* variant of extract_yaml_segments with the seen_segments logic the comment
\* of lines 68-70 speaks of: a segment equal to an earlier one is skipped
extract_yaml_segments_dedup(ls) ==
    Bind(PotentialSegments(ls),
         LAMBDA ps :
           Return(ValidSegments(
             SelectSeq([k \in 1..Len(ps) |->
                          [p     |-> parse_multiline_yaml(ps[k].lines),
                           kind  |-> ps[k].kind,
                           at    |-> ps[k].at,
                           first |-> \A j \in 1..(k - 1) :
                                       ps[j].lines # ps[k].lines]],
                       LAMBDA c : c.first))))

\* extract_yaml_segments(text): every potential segment that parses to a
\* dict, in the order of potential_segments.  A candidate is the dict
\* (data) with the kind and place of the segment it came from.  An
\* exception leaving parse_multiline_yaml would leave this function too, at
\* the first segment that raises it.
extract_yaml_segments(ls) ==
    Bind(ParsedSegments(ls),
         LAMBDA parsed :
           IF \E k \in 1..Len(parsed) : parsed[k].p.exc # "none"
           THEN Raise([type    |-> parsed[CHOOSE k \in 1..Len(parsed) :
                                             /\ parsed[k].p.exc # "none"
                                             /\ \A j \in 1..(k - 1) :
                                                   parsed[j].p.exc = "none"].p.exc,
                       msg     |-> "yaml",
                       segment |-> 0,
                       keys    |-> <<>>])
           ELSE Return(ValidSegments(parsed)))

\* the raw candidate substrings of a text with what yaml.safe_load does on
\* each (history: what the loop of lines 71-78 met)
SegmentLoads(ls) ==
    Bind(PotentialSegments(ls),
         LAMBDA ps :
           [k \in 1..Len(ps) |->
              [lines |-> ps[k].lines,
               kind  |-> ps[k].kind,
               at    |-> ps[k].at,
               load  |-> SafeLoad(ps[k].lines)]])

(***************************************************************************)
(* YAMLExtractor                                                           *)
(***************************************************************************)
\* __init__: ValueError for a strategy other than "first" and "last"
YAMLExtractor(mandatory_keys, strategy) ==
    IF strategy \notin {"first", "last"}
    THEN Rejected(strategy)
    ELSE [state |-> "ready", mandatory_keys |-> mandatory_keys, strategy |-> strategy]

\* line 142: [key for key in self.mandatory_keys if key not in candidate]
MissingKeys(mandatory_keys, candidate) ==
    SelectSeq(mandatory_keys, LAMBDA key : key \notin DOMAIN candidate.data)

\* variant of StrictCheck: the error names the last candidate with missing
\* keys
StrictCheckLast(mandatory_keys, candidates) ==
    Bind({i \in 1..Len(candidates) :
            MissingKeys(mandatory_keys, candidates[i]) # <<>>},
         LAMBDA bad :
           IF bad = {}
           THEN Return(candidates)
           ELSE Bind(CHOOSE x \in bad : \A y \in bad : y <= x,
                     LAMBDA i :
                       Raise([type |-> "ValueError", msg |-> "missing mandatory keys",
                              segment |-> i,
                              keys |-> MissingKeys(mandatory_keys, candidates[i])])))

\* lines 141-144: the first candidate with missing keys raises; the message
\* counts segments from 1
StrictCheck(mandatory_keys, candidates) ==
    Bind({i \in 1..Len(candidates) :
            MissingKeys(mandatory_keys, candidates[i]) # <<>>},
         LAMBDA bad :
           IF bad = {}
           THEN Return(candidates)
           ELSE Bind(CHOOSE x \in bad : \A y \in bad : x <= y,
                     LAMBDA i :
                       Raise([type |-> "ValueError", msg |-> "missing mandatory keys",
                              segment |-> i,
                              keys |-> MissingKeys(mandatory_keys, candidates[i])])))

\* variant of Filter: any(...) in place of all(...)
FilterAnyKey(mandatory_keys, candidates) ==
    SelectSeq(candidates,
              LAMBDA c : \E k \in 1..Len(mandatory_keys) :
                            mandatory_keys[k] \in DOMAIN c.data)

\* lines 134-137: keep the candidates that hold every mandatory key
Filter(mandatory_keys, candidates) ==
    SelectSeq(candidates,
              LAMBDA c : \A k \in 1..Len(mandatory_keys) :
                            mandatory_keys[k] \in DOMAIN c.data)

\* extract_from_text(text, exclude_non_mandatory)
extract_from_text(e, ls, exclude_non_mandatory) ==
    Bind(extract_yaml_segments(ls),
         LAMBDA r :
           IF r.kind = "raise"
           THEN r
           ELSE IF e.mandatory_keys = <<>>
           THEN r
           ELSE IF exclude_non_mandatory
           THEN Return(Filter(e.mandatory_keys, r.value))
           ELSE StrictCheck(e.mandatory_keys, r.value))

\* variant of Select: the strategy is not consulted
SelectAlwaysLast(e, candidates) ==
    IF candidates = <<>>
    THEN Raise([type |-> "ValueError",
                msg |-> "No valid YAML found matching requirements",
                segment |-> 0, keys |-> e.mandatory_keys])
    ELSE Return(<<candidates[Len(candidates)]>>)

\* variant of Select: an empty list gives an empty result, not an error
SelectDefaulting(e, candidates) ==
    IF candidates = <<>>
    THEN Return(<<>>)
    ELSE IF e.strategy = "first"
    THEN Return(<<candidates[1]>>)
    ELSE Return(<<candidates[Len(candidates)]>>)

\* lines 155-163: no candidate is an error, otherwise one is picked
Select(e, candidates) ==
    IF candidates = <<>>
    THEN Raise([type |-> "ValueError",
                msg |-> "No valid YAML found matching requirements",
                segment |-> 0, keys |-> e.mandatory_keys])
    ELSE IF e.strategy = "first"
    THEN Return(<<candidates[1]>>)
    ELSE Return(<<candidates[Len(candidates)]>>)

\* process(text, **kwargs): a returned value is <<the selected candidate>>
process(e, ls, exclude_non_mandatory) ==
    Bind(extract_from_text(e, Strip(ls), exclude_non_mandatory),
         LAMBDA r : IF r.kind = "raise" THEN r ELSE Select(e, r.value))

\* the lists of mandatory keys and the strategies an extractor is built with
MandatoryKeyLists == {<<>>, <<"title">>, <<"title", "steps">>}

Strategies == {"first", "last", "middle"}

IdleAgent == StructuredAgent("none", "default", DefaultRetry(1), DefaultRetry(1))

InitYaml ==
    /\ self = IdleAgent
    /\ pc = "idle"
    /\ st = StartCall
    /\ outcome = NoOutcome
    /\ ex = NoExtractor
    /\ text = <<>>
    /\ yst = NoCall

\* the list extract_yaml_segments returned, none when it raised
Candidates(r) == IF r.kind = "return" THEN r.value ELSE <<>>

\* The operations below keep no state between calls (the extractor's fields
\* are set once, by the constructor), so a behaviour makes one call and every
\* call is the first call of some behaviour.

\* YAMLExtractor(mandatory_keys, strategy)
Construct ==
    /\ ex.state = "new"
    /\ yst.op = "none"
    /\ \E mk \in MandatoryKeyLists, s \in Strategies :
         ex' = YAMLExtractor(mk, s)
    /\ UNCHANGED <<self, pc, st, outcome, text, yst>>

\* extractor.process(text, exclude_non_mandatory=x), also extractor(...)
DoProcess ==
    /\ ex.state = "ready"
    /\ yst.op = "none"
    /\ \E t \in Texts, x \in BOOLEAN :
         /\ text' = t
         /\ yst' = [op         |-> "process",
                    exclude    |-> x,
                    input      |-> Strip(t),
                    regions    |-> FenceMatches(Strip(t), 1),
                    segments   |-> SegmentLoads(Strip(t)),
                    candidates |-> Candidates(extract_yaml_segments(Strip(t))),
                    filtered   |-> extract_from_text(ex, Strip(t), x),
                    result     |-> process(ex, t, x)]
    /\ UNCHANGED <<self, pc, st, outcome, ex>>

\* extractor.extract_from_text(text, exclude_non_mandatory=x)
DoExtractFromText ==
    /\ ex.state = "ready"
    /\ yst.op = "none"
    /\ \E t \in Texts, x \in BOOLEAN :
         /\ text' = t
         /\ yst' = [op         |-> "extract_from_text",
                    exclude    |-> x,
                    input      |-> t,
                    regions    |-> FenceMatches(t, 1),
                    segments   |-> SegmentLoads(t),
                    candidates |-> Candidates(extract_yaml_segments(t)),
                    filtered   |-> extract_from_text(ex, t, x),
                    result     |-> extract_from_text(ex, t, x)]
    /\ UNCHANGED <<self, pc, st, outcome, ex>>

\* extract_yaml_segments(text), called on its own
DoExtractYamlSegments ==
    /\ ex.state = "new"
    /\ yst.op = "none"
    /\ \E t \in Texts :
         /\ text' = t
         /\ yst' = [op         |-> "extract_yaml_segments",
                    exclude    |-> FALSE,
                    input      |-> t,
                    regions    |-> FenceMatches(t, 1),
                    segments   |-> SegmentLoads(t),
                    candidates |-> Candidates(extract_yaml_segments(t)),
                    filtered   |-> NoResult,
                    result     |-> extract_yaml_segments(t)]
    /\ UNCHANGED <<self, pc, st, outcome, ex>>

NextYaml ==
    \/ Construct
    \/ DoProcess
    \/ DoExtractFromText
    \/ DoExtractYamlSegments

SpecYaml == InitYaml /\ [][NextYaml]_vars

(***************************************************************************)
(* Properties of the retry orchestrator (checked under Spec)               *)
(***************************************************************************)
\* the inner layer's whitelist as the specification gives it
Whitelist == {"ValueError", "KeyError", "TypeError", "RuntimeError"}

InWhitelist(cls) == Mro(cls) \cap Whitelist # {}

\* C1: retry exhaustion.  When an external call has ended, the model was
\* invoked and every model invocation raised an exception (a subclass of
\* Exception), the call made exactly retry_configs.max_attempts model
\* invocations and the error leaving it is the one the last invocation raised.
C1_RetryExhaustion ==
    (pc = "done" /\ st.llm_calls > 0 /\ st.all_llm_raised)
        => /\ st.llm_calls = self.retry_configs.max_attempts
           /\ outcome.kind = "raise"
           /\ outcome.exc = st.last_llm_exc

\* C2: inner-layer classification.  A step starts a further inner attempt
\* only if the exception of the attempt just ended is in the whitelist and
\* the attempt number was below the inner max_attempts; an inner attempt
\* ending with an exception outside the whitelist ends the call with that
\* exception, whatever budget is left; and after the end of a call no model
\* or post-processor call is made until a new external call begins.
C2_InnerClassification ==
    [][ /\ (st'.pp_attempt = st.pp_attempt + 1)
            => /\ InWhitelist(st'.pp_attempt_exc.cls)
               /\ st.pp_attempt < self.pp_retry_configs.max_attempts
        /\ (st'.pp_attempt_exc # NoExc /\ ~InWhitelist(st'.pp_attempt_exc.cls))
            => /\ pc' = "done"
               /\ outcome' = [kind |-> "raise", exc |-> st'.pp_attempt_exc,
                              value |-> NoText]
        /\ (pc = "done") => (st'.llm_calls = 0 /\ st'.pp_calls = 0)
      ]_vars

\* after one retried inner attempt the post-processor raised an exception
\* outside the whitelist in attempt 2, and the call ended with inner budget
\* left
C2_Witness ==
    /\ pc = "done"
    /\ outcome.kind = "raise"
    /\ outcome.exc.cls = "OSError"
    /\ st.pp_calls = 2
    /\ st.pp_attempt = 2
    /\ self.pp_retry_configs.max_attempts > 2

\* C3: fresh model call per inner retry.  Whenever the post-processor is
\* about to run or has run, its input is the text of the latest model
\* invocation, and that invocation was made in the same inner attempt.
C3_FreshModelCall ==
    /\ (pc = "post")
        => /\ st.raw_content.attempt = st.pp_attempt
           /\ st.raw_content.call = st.llm_calls
    /\ (st.pp_calls > 0)
        => /\ st.pp_input # NoText
           /\ st.pp_input.attempt = st.pp_input_attempt
           /\ st.pp_input.call >= st.pp_calls

\* the post-processor ran in inner attempt 2, after a failed attempt 1
C3_Witness ==
    /\ st.pp_calls = 2
    /\ st.pp_input_attempt = 2
    /\ st.pp_input.attempt = 2

\* C4: verbatim re-raise.  In each layer the attempt number never exceeds
\* max_attempts; the error leaving a layer is the exception object its last
\* attempt raised; a retryable error leaves a layer only at attempt
\* max_attempts; and a layer returns normally only when its last attempt
\* raised nothing.
C4_VerbatimReraise ==
    /\ st.llm_attempt <= self.retry_configs.max_attempts
    /\ st.pp_attempt <= self.pp_retry_configs.max_attempts
    /\ (st.llm_exit.kind = "raise")
        => /\ st.llm_exit.exc = st.llm_exit.last
           /\ st.llm_exit.last # NoExc
           /\ ("Exception" \in Mro(st.llm_exit.last.cls))
                => st.llm_exit.n = self.retry_configs.max_attempts
    /\ (st.llm_exit.kind = "return") => st.llm_exit.last = NoExc
    /\ (outcome.kind = "raise")
        => /\ outcome.exc = st.pp_attempt_exc
           /\ st.pp_attempt_exc # NoExc
           /\ InWhitelist(outcome.exc.cls)
                => st.pp_exit_n = self.pp_retry_configs.max_attempts
    /\ (outcome.kind = "return") => st.pp_attempt_exc = NoExc
    /\ (pc = "done") = (outcome.kind # "none")

\* both layers exhausted in one call: the outer one at its last attempt of
\* the last inner attempt
C4_Witness ==
    /\ pc = "done"
    /\ outcome.kind = "raise"
    /\ st.pp_exit_n = MaxAttempts
    /\ self.pp_retry_configs.max_attempts = MaxAttempts
    /\ st.llm_exit.kind = "raise"
    /\ st.llm_exit.n = MaxAttempts
    /\ self.retry_configs.max_attempts = MaxAttempts
    /\ outcome.exc = st.last_llm_exc

\* clamp(x, lo, hi)
Clamp(x, lo, hi) == RatMax(lo, RatMin(x, hi))

\* the schedule of the specification: clamp(base * 2^(n-1), min, max)
SpecWait(configs, n) ==
    Clamp(RatMul(configs.wait_base, <<2 ^ (n - 1), 1>>), configs.wait_min,
          configs.wait_max)

\* C10: backoff schedule.  The wait a layer made after its n-th failed
\* attempt equals clamp(wait_base * 2^(n-1), wait_min, wait_max) of that
\* layer's own policy.
C10_BackoffSchedule ==
    /\ (st.slept.layer = "llm")
        => RatEq(st.slept.dur, SpecWait(self.retry_configs, st.slept.n))
    /\ (st.slept.layer = "pp")
        => RatEq(st.slept.dur, SpecWait(self.pp_retry_configs, st.slept.n))

\* a step of a call in progress
Step ==
    \/ InvokeReturns
    \/ InvokeRaises
    \/ InvokeNoAttribute
    \/ PostProcessReturns
    \/ PostProcessRaises

\* how far a call has come: inner attempt, then outer attempt, then the
\* place within the attempt
Progress(s, p) ==
    ((s.pp_attempt - 1) * self.retry_configs.max_attempts + s.llm_attempt) * 2
      + (IF p = "post" THEN 1 ELSE 0)

\* the counts a call stays within, and that a call in progress can go on
C13_Bounds ==
    /\ st.llm_attempt \in 1..self.retry_configs.max_attempts
    /\ st.pp_attempt \in 1..self.pp_retry_configs.max_attempts
    /\ st.llm_calls <= self.pp_retry_configs.max_attempts
                         * self.retry_configs.max_attempts
    /\ st.pp_calls <= self.pp_retry_configs.max_attempts
    /\ st.pp_calls <= st.pp_attempt
    /\ pc \in {"invoke", "post"} => ENABLED Step
    /\ pc = "done"
         => /\ outcome.kind \in {"return", "raise"}
            /\ outcome.kind = "return"
                 => /\ outcome.value = st.pp_input
                    /\ st.pp_input_attempt = st.pp_attempt
            /\ ~ENABLED Step

\* what one step of a call does to the counters
C13_Steps ==
    /\ pc \in {"invoke", "post"}
         => \/ pc' = "done"
            \/ /\ pc' \in {"invoke", "post"}
               /\ Progress(st', pc') > Progress(st, pc)
    /\ st'.pp_attempt # st.pp_attempt => st'.llm_attempt = 1
    /\ pc \in {"invoke", "post"}
         => /\ st'.pp_attempt \in {st.pp_attempt, st.pp_attempt + 1}
            /\ st'.llm_calls \in {st.llm_calls, st.llm_calls + 1}
            /\ st'.pp_calls \in {st.pp_calls, st.pp_calls + 1}
    /\ pc = "done" => (pc' = "invoke" /\ st' = StartCall /\ outcome' = NoOutcome)

\* C13: bounded termination of the nested retry loops.  A call in progress
\* can always take a step, every step ends the call or moves it forward in
\* the order (inner attempt, outer attempt, place), and the attempt counters
\* stay within the two max_attempts: so every call ends, by returning what
\* the post-processor returned or by raising, after at most inner
\* max_attempts times outer max_attempts model invocations and at most inner
\* max_attempts post-processor calls.  A new inner attempt starts the outer
\* layer at attempt 1, and after a call has ended nothing happens until the
\* next call.
C13_BoundedTermination == []C13_Bounds /\ [][C13_Steps]_vars

\* a call that used every attempt of both layers: each inner attempt's model
\* invocation returned only at the last outer attempt and the post-processor
\* raised each time
C13_Witness ==
    /\ pc = "done"
    /\ outcome.kind = "raise"
    /\ self.retry_configs.max_attempts >= 2
    /\ self.pp_retry_configs.max_attempts >= 2
    /\ st.llm_calls = self.pp_retry_configs.max_attempts
                        * self.retry_configs.max_attempts
    /\ st.pp_calls = self.pp_retry_configs.max_attempts

\* C14: success path for any construction.  For an agent built with a model
\* object of the caller as for one built with the default model, a call in
\* which neither the model nor the post-processor raised has returned what
\* the post-processor returned, after exactly one model invocation and
\* exactly one post-processor call.
C14_SuccessPath ==
    (pc = "done" /\ ~st.env_raised)
        => /\ outcome.kind = "return"
           /\ outcome.value = st.pp_input
           /\ st.llm_calls = 1
           /\ st.pp_calls = 1

(***************************************************************************)
(* Properties of the extractor and the selector (checked under SpecYaml)   *)
(***************************************************************************)
\* the candidate holds every key of the list
HasEveryKey(c, keys) == \A k \in 1..Len(keys) : keys[k] \in DOMAIN c.data

\* the keys of the list the candidate lacks
LackedKeys(c, keys) == {keys[k] : k \in 1..Len(keys)} \ DOMAIN c.data

SeqToSet(q) == {q[k] : k \in 1..Len(q)}

\* extract_from_text ran (on its own or inside process) in the given mode
\* with a non-empty list of mandatory keys
Filtering(exclude) ==
    /\ yst.op \in {"process", "extract_from_text"}
    /\ yst.exclude = exclude

\* C5: strict mode is all-or-nothing.  With mandatory keys and
\* exclude_non_mandatory false, extract_from_text raises if and only if some
\* candidate lacks a mandatory key; the error names the position of the
\* first such candidate and exactly the keys it lacks; otherwise the
\* candidate list is returned unchanged.
C5_StrictAllOrNothing ==
    (Filtering(FALSE) /\ ex.mandatory_keys # <<>>)
        => LET cs  == yst.candidates
               bad == {i \in 1..Len(cs) : ~HasEveryKey(cs[i], ex.mandatory_keys)}
           IN  IF bad = {}
               THEN yst.filtered = Return(cs)
               ELSE /\ yst.filtered.kind = "raise"
                    /\ yst.filtered.error.type = "ValueError"
                    /\ yst.filtered.error.segment \in bad
                    /\ \A i \in bad : yst.filtered.error.segment <= i
                    /\ SeqToSet(yst.filtered.error.keys)
                         = LackedKeys(cs[yst.filtered.error.segment], ex.mandatory_keys)

\* strict mode raised for the second candidate although the first one holds
\* every mandatory key
C5_Witness ==
    /\ Filtering(FALSE)
    /\ ex.mandatory_keys = <<"title", "steps">>
    /\ Len(yst.candidates) >= 2
    /\ HasEveryKey(yst.candidates[1], ex.mandatory_keys)
    /\ yst.filtered.kind = "raise"
    /\ yst.filtered.error.segment = 2
    /\ yst.filtered.error.keys = <<"steps">>

\* C6: filter mode.  With exclude_non_mandatory true extract_from_text never
\* raises and returns the candidates that hold every mandatory key, in
\* their original order.
C6_FilterMode ==
    Filtering(TRUE)
        => /\ yst.filtered.kind = "return"
           /\ yst.filtered.value
                = SelectSeq(yst.candidates,
                            LAMBDA c : HasEveryKey(c, ex.mandatory_keys))

\* filter mode dropped the first of two candidates and kept the second
C6_Witness ==
    /\ Filtering(TRUE)
    /\ ex.mandatory_keys = <<"title", "steps">>
    /\ Len(yst.candidates) = 2
    /\ ~HasEveryKey(yst.candidates[1], ex.mandatory_keys)
    /\ yst.filtered = Return(<<yst.candidates[2]>>)

C8_SelectionStrategy ==
    /\ (ex.state = "ready") => ex.strategy \in {"first", "last"}
    /\ (ex.state = "rejected") => ex.strategy \notin {"first", "last"}
    /\ (ex.state # "new" /\ ex.strategy \notin {"first", "last"})
            => ex.state = "rejected"
    /\ (yst.op = "process" /\ yst.filtered.kind = "return" /\ yst.filtered.value # <<>>)
            => LET v == yst.filtered.value
               IN  /\ yst.result.kind = "return"
                   /\ ex.strategy = "first" => yst.result.value = <<v[1]>>
                   /\ ex.strategy = "last" => yst.result.value = <<v[Len(v)]>>
                   /\ ( /\ Len(v) = 2
                        /\ v[1].kind = "fenced" /\ v[2].kind = "standalone"
                        /\ v[1].at < v[2].at )
                        => yst.result.value[1].kind
                             = (IF ex.strategy = "first" THEN "fenced" ELSE "standalone")

\* a fenced block followed by a standalone block of equal content, strategy
\* first: the fenced candidate is returned
C8_Witness ==
    /\ yst.op = "process"
    /\ ex.strategy = "first"
    /\ Len(yst.filtered.value) = 2
    /\ yst.filtered.value[1].kind = "fenced"
    /\ yst.filtered.value[2].kind = "standalone"
    /\ yst.filtered.value[1].at < yst.filtered.value[2].at
    /\ yst.filtered.value[1].data = yst.filtered.value[2].data
    /\ yst.result.kind = "return"
    /\ yst.result.value[1].kind = "fenced"

\* C9: candidate order equals order of first appearance.  In the list
\* extract_yaml_segments returns, a candidate whose source region begins
\* earlier in the text precedes one whose region begins later.
C9_OrderOfAppearance ==
    (yst.op # "none")
        => \A i, j \in 1..Len(yst.candidates) :
              yst.candidates[i].at < yst.candidates[j].at => i < j

\* the raw candidate substrings whose load is a mapping, as candidates
DictSegments(segs) ==
    [k \in 1..Len(SelectSeq(segs, LAMBDA g : g.load.kind = "dict")) |->
       [data |-> SelectSeq(segs, LAMBDA g : g.load.kind = "dict")[k].load.data,
        kind |-> SelectSeq(segs, LAMBDA g : g.load.kind = "dict")[k].kind,
        at   |-> SelectSeq(segs, LAMBDA g : g.load.kind = "dict")[k].at]]

\* C11: the segment extractor never raises.  For every text,
\* extract_yaml_segments returns a list; a raw candidate substring whose load
\* ends in a scanner or parser error, in any other exception, or in a value
\* that is not a mapping is left out of it; the substrings that load as a
\* mapping are all in it, in their order; and when no substring loads as a
\* mapping the list is empty.  No call of the extractor built on it ends in
\* an error of the YAML library.
C11_NeverRaises ==
    /\ (yst.op = "extract_yaml_segments")
          => /\ yst.result.kind = "return"
             /\ yst.result.value = DictSegments(yst.segments)
             /\ Len(yst.result.value)
                  = Cardinality({k \in 1..Len(yst.segments) :
                                   yst.segments[k].load.kind
                                     \notin {"error", "other", "scalar", "none"}})
             /\ (\A k \in 1..Len(yst.segments) :
                    yst.segments[k].load.kind \in {"error", "other", "scalar"})
                   => yst.result.value = <<>>
    /\ (yst.op \in {"process", "extract_from_text"} /\ yst.result.kind = "raise")
          => yst.result.error.type = "ValueError"

\* a substring whose load raises ConstructorError is dropped and the mapping
\* after it is returned
C11_Witness ==
    /\ yst.op = "extract_yaml_segments"
    /\ \E k \in 1..Len(yst.segments) : yst.segments[k].load.kind = "other"
    /\ \E k \in 1..Len(yst.segments) : yst.segments[k].load.kind = "dict"
    /\ yst.result.kind = "return"
    /\ Len(yst.result.value) = 1

\* the candidates that come from lines a..b of the text
CandidatesWithin(a, b) ==
    {k \in 1..Len(yst.candidates) :
        a <= yst.candidates[k].at /\ yst.candidates[k].at <= b}

\* C12: candidate multiplicity.  For every text, a matched fenced region
\* whose body loads as a mapping gives exactly one candidate, a fenced one:
\* no standalone candidate comes from lines inside a matched region.  Nothing
\* is deduplicated: as many candidates carry a mapping as there are raw
\* substrings that load as that mapping, so k blocks of equal content give
\* k candidates.
C12_CandidateMultiplicity ==
    (yst.op # "none")
        => /\ \A r \in 1..Len(yst.regions) :
                 /\ \A k \in CandidatesWithin(yst.regions[r][1], yst.regions[r][2]) :
                       /\ yst.candidates[k].kind = "fenced"
                       /\ yst.candidates[k].at = yst.regions[r][1]
                 /\ Cardinality(CandidatesWithin(yst.regions[r][1],
                                                  yst.regions[r][2]))
                      = (IF \E g \in 1..Len(yst.segments) :
                               /\ yst.segments[g].kind = "fenced"
                               /\ yst.segments[g].at = yst.regions[r][1]
                               /\ yst.segments[g].load.kind = "dict"
                         THEN 1 ELSE 0)
           /\ \A g \in 1..Len(yst.segments) :
                 yst.segments[g].load.kind = "dict"
                   => Cardinality({k \in 1..Len(yst.candidates) :
                                     yst.candidates[k].data = yst.segments[g].load.data})
                        = Cardinality({h \in 1..Len(yst.segments) :
                                         /\ yst.segments[h].load.kind = "dict"
                                         /\ yst.segments[h].load.data
                                              = yst.segments[g].load.data})

\* a fenced block and a standalone block of equal content: two candidates,
\* one from the region and one from the line after it
C12_Witness ==
    /\ yst.op = "extract_yaml_segments"
    /\ Len(yst.regions) = 1
    /\ Len(yst.candidates) = 2
    /\ yst.candidates[1].kind = "fenced"
    /\ yst.candidates[1].at = yst.regions[1][1]
    /\ yst.candidates[2].kind = "standalone"
    /\ yst.candidates[2].at > yst.regions[1][2]
    /\ yst.candidates[1].data = yst.candidates[2].data

====
